---- MODULE Spec2Model ----
\* A model of the tmux-mcp server (TmuxMCPServer): the list-tools handler,
\* the call-tool handler with its dispatch switch and try/catch, the nine
\* command builders, and the subprocess each call waits for.
\*
\* JavaScript values: an optional value is a sequence of length at most one,
\* <<>> for undefined and <<v>> for the value v.  Command lines and reply
\* texts are strings, built with the same concatenations as the code.
EXTENDS Integers, Sequences, FiniteSets, TLC

\* ---------------------------------------------------------------- bounds
NumCalls == 2      \* call-tool requests that may be in flight together
MaxArgs == 2       \* longest args array given to claude_mcp_add

Calls == 1..NumCalls
SeqCalls == {1}

VARIABLES pc, req, cmd, execs, outcome, result, branch, listed

vars == <<pc, req, cmd, execs, outcome, result, branch, listed>>

\* ------------------------------------------------------- JavaScript values
Undefined == <<>>

Some(v) == <<v>>

\* `${x}` in a template literal
Str(x) == IF x = Undefined THEN "undefined" ELSE x[1]

\* the truthiness test of `if (x)` on a string or undefined
Truthy(x) == x # Undefined /\ x[1] # ""

RECURSIVE Join(_, _)
\* Array.prototype.join
Join(arr, sep) ==
    IF Len(arr) = 0 THEN ""
    ELSE IF Len(arr) = 1 THEN arr[1]
    ELSE arr[1] \o sep \o Join(Tail(arr), sep)

\* String.prototype.slice(0, n)
Slice0(s, n) == SubSeq(s, 1, IF n < Len(s) THEN n ELSE Len(s))

RECURSIVE ReplaceAll(_, _, _)
\* String.prototype.replace(/a/g, b) for a one-character pattern
ReplaceAll(s, a, b) ==
    IF Len(s) = 0 THEN ""
    ELSE (IF SubSeq(s, 1, 1) = a THEN b ELSE SubSeq(s, 1, 1))
         \o ReplaceAll(SubSeq(s, 2, Len(s)), a, b)

RECURSIVE ReplaceFirst(_, _, _)
\* String.prototype.replace(a, b) for a one-character string pattern
ReplaceFirst(s, a, b) ==
    IF Len(s) = 0 THEN ""
    ELSE IF SubSeq(s, 1, 1) = a THEN b \o SubSeq(s, 2, Len(s))
    ELSE SubSeq(s, 1, 1) \o ReplaceFirst(SubSeq(s, 2, Len(s)), a, b)

StartsWith(s, p) == Len(s) >= Len(p) /\ SubSeq(s, 1, Len(p)) = p

EndsWith(s, p) == Len(s) >= Len(p) /\ SubSeq(s, Len(s) - Len(p) + 1, Len(s)) = p

\* the least i with SubSeq(s, i, i + Len(p) - 1) = p, or 0
IndexOf(s, p) ==
    LET hits == {i \in 1..(Len(s) + 1) :
                    i + Len(p) - 1 <= Len(s) /\ SubSeq(s, i, i + Len(p) - 1) = p}
    IN IF hits = {} THEN 0 ELSE CHOOSE i \in hits : \A j \in hits : i <= j

Contains(s, p) == IndexOf(s, p) # 0

\* ------------------------------------------------------------ tool tables
\* the names of the tools array returned by the ListToolsRequestSchema handler
ListTools ==
    << "tmux_split_window", "tmux_new_window", "tmux_list_sessions",
       "tmux_list_windows", "tmux_send_keys", "tmux_open_nvim",
       "tmux_open_obsidian_note", "claude_mcp_add", "claude_mcp_list" >>

\* a switch that was not extended when the last three tools were declared
DispatchCasesStale ==
    << "tmux_split_window", "tmux_new_window", "tmux_list_sessions",
       "tmux_list_windows", "tmux_send_keys", "tmux_open_nvim" >>

\* the case labels of the switch in the CallToolRequestSchema handler, in order
DispatchCases ==
    << "tmux_split_window", "tmux_new_window", "tmux_list_sessions",
       "tmux_list_windows", "tmux_send_keys", "tmux_open_nvim",
       "tmux_open_obsidian_note", "claude_mcp_add", "claude_mcp_list" >>

\* the same two tables of the six-tool server in src/index.ts
ListToolsIndex ==
    << "tmux_split_window", "tmux_new_window", "tmux_list_sessions",
       "tmux_list_windows", "tmux_send_keys", "tmux_open_nvim" >>

DispatchCasesIndex ==
    << "tmux_split_window", "tmux_new_window", "tmux_list_sessions",
       "tmux_list_windows", "tmux_send_keys", "tmux_open_nvim" >>

\* switch (name): the first matching case label, or "default"
SwitchOn(cases, name) ==
    IF \E i \in 1..Len(cases) : cases[i] = name THEN name ELSE "default"

Dispatch(name) == SwitchOn(DispatchCases, name)

\* ------------------------------------------------------ builder results
\* a builder that reached its execAsync call with command line c
Built(c) == [thrown |-> FALSE, message |-> "", line |-> c]

\* a builder that threw an Error with message m after building c so far
Thrown(m, c) == [thrown |-> TRUE, message |-> m, line |-> c]

\* the TypeError of reading a property of `args` when arguments were omitted
TypeErr(prop) == "Cannot read properties of undefined (reading '" \o prop \o "')"

\* the truthiness test of `if (x)` on an array, an object or undefined
TruthyObj(x) == x # Undefined

\* ---------------------------------------------------------------- builders
\* Each XxxCmd is the handler up to its `await execAsync(cmd)`; each XxxText
\* is the text of the reply the handler returns once execAsync has resolved.

splitWindowCmd(args) ==
    IF args = Undefined THEN Thrown(TypeErr("direction"), "")
    ELSE LET a == args[1]
             splitFlag == IF a.direction = Some("horizontal") THEN "-h" ELSE "-v"
             c0 == "tmux split-window " \o splitFlag
             c1 == IF Truthy(a.directory)
                   THEN c0 \o " -c \"" \o Str(a.directory) \o "\"" ELSE c0
             c2 == IF Truthy(a.command)
                   THEN c1 \o " \"" \o Str(a.command) \o "\"" ELSE c1
         IN Built(c2)

splitWindowText(args, out) ==
    LET a == args[1]
    IN "Split window " \o Str(a.direction) \o "ly"
       \o (IF Truthy(a.command) THEN " and ran: " \o Str(a.command) ELSE "")

newWindowCmd(args) ==
    IF args = Undefined THEN Thrown(TypeErr("name"), "tmux new-window")
    ELSE LET a == args[1]
             c0 == "tmux new-window"
             c1 == IF Truthy(a.name)
                   THEN c0 \o " -n \"" \o Str(a.name) \o "\"" ELSE c0
             c2 == IF Truthy(a.directory)
                   THEN c1 \o " -c \"" \o Str(a.directory) \o "\"" ELSE c1
             c3 == IF Truthy(a.command)
                   THEN c2 \o " \"" \o Str(a.command) \o "\"" ELSE c2
         IN Built(c3)

newWindowText(args, out) ==
    LET a == args[1]
    IN "Created new window"
       \o (IF Truthy(a.name) THEN " '" \o Str(a.name) \o "'" ELSE "")

listSessionsCmd ==
    Built("tmux list-sessions -F \"#{session_name}: #{session_windows} windows\"")

listSessionsText(out) == "Tmux sessions:\n" \o out.stdout

listWindowsCmd ==
    Built("tmux list-windows -F \"#{window_index}: #{window_name} (#{window_panes} panes)\"")

listWindowsText(out) == "Current session windows:\n" \o out.stdout

\* sendKeys testing `if (args.enter)` instead of `args.enter !== false`
sendKeysCmdTruthyEnter(args) ==
    IF args = Undefined THEN Thrown(TypeErr("pane"), "tmux send-keys")
    ELSE LET a == args[1]
             c0 == "tmux send-keys"
             c1 == IF Truthy(a.pane)
                   THEN c0 \o " -t \"" \o Str(a.pane) \o "\"" ELSE c0
             c2 == c1 \o " \"" \o Str(a.keys) \o "\""
             c3 == IF a.enter = Some(TRUE) THEN c2 \o " Enter" ELSE c2
         IN Built(c3)

sendKeysCmd(args) ==
    IF args = Undefined THEN Thrown(TypeErr("pane"), "tmux send-keys")
    ELSE LET a == args[1]
             c0 == "tmux send-keys"
             c1 == IF Truthy(a.pane)
                   THEN c0 \o " -t \"" \o Str(a.pane) \o "\"" ELSE c0
             c2 == c1 \o " \"" \o Str(a.keys) \o "\""
             c3 == IF a.enter # Some(FALSE) THEN c2 \o " Enter" ELSE c2
         IN Built(c3)

sendKeysText(args, out) ==
    LET a == args[1]
    IN "Sent keys: " \o Str(a.keys)
       \o (IF a.enter # Some(FALSE) THEN " (with Enter)" ELSE "")

openNvimCmd(args) ==
    IF args = Undefined THEN Thrown(TypeErr("split"), "")
    ELSE LET a == args[1]
             splitFlag == IF a.split = Some("vertical") THEN "-v" ELSE "-h"
             c0 == "tmux split-window " \o splitFlag
             c1 == IF Truthy(a.directory)
                   THEN c0 \o " -c \"" \o Str(a.directory) \o "\"" ELSE c0
             nvimCmd == IF Truthy(a.file)
                        THEN "nvim \"" \o Str(a.file) \o "\"" ELSE "nvim"
             c2 == c1 \o " \"" \o nvimCmd \o "\""
         IN Built(c2)

openNvimText(args, out) ==
    LET a == args[1]
    IN "Opened nvim"
       \o (IF Truthy(a.file) THEN " with file: " \o Str(a.file) ELSE "")
       \o " in new pane"

obsidianBase == "/Users/ldraney/Library/Mobile Documents/iCloud~md~obsidian/Documents"

\* new Date().toISOString().slice(0, 19).replace('T', '_').replace(/:/g, '-') + '.md'
TimestampName(now) ==
    ReplaceAll(ReplaceFirst(Slice0(now, 19), "T", "_"), ":", "-") \o ".md"

\* args.note_name || <timestamp name>
noteNameOf(a, now) ==
    IF Truthy(a.note_name) THEN Str(a.note_name) ELSE TimestampName(now)

\* openObsidianNote without the branch that lists the vaults
openObsidianNoteCmdAlwaysSplit(args, now) ==
    IF args = Undefined THEN Thrown(TypeErr("vault"), "")
    ELSE LET a == args[1]
             vaultPath == obsidianBase \o "/" \o Str(a.vault)
             noteName == noteNameOf(a, now)
             filePath == vaultPath \o "/" \o noteName
             splitFlag == IF a.split = Some("vertical") THEN "-v" ELSE "-h"
         IN Built("tmux split-window " \o splitFlag \o " -c \"" \o vaultPath
                  \o "\" \"nvim '" \o filePath \o "'\"")

openObsidianNoteCmd(args, now) ==
    IF args = Undefined THEN Thrown(TypeErr("vault"), "")
    ELSE LET a == args[1]
         IN IF ~Truthy(a.vault)
            THEN Built("ls \"" \o obsidianBase \o "\"")
            ELSE LET vaultPath == obsidianBase \o "/" \o Str(a.vault)
                     noteName == noteNameOf(a, now)
                     filePath == vaultPath \o "/" \o noteName
                     splitFlag == IF a.split = Some("vertical") THEN "-v" ELSE "-h"
                 IN Built("tmux split-window " \o splitFlag \o " -c \"" \o vaultPath
                          \o "\" \"nvim '" \o filePath \o "'\"")

openObsidianNoteText(args, now, out) ==
    LET a == args[1]
    IN IF ~Truthy(a.vault)
       THEN "Available vaults:\n" \o out.stdout
       ELSE "Opened new Obsidian note \"" \o noteNameOf(a, now)
            \o "\" in vault \"" \o Str(a.vault) \o "\""

RECURSIVE EnvFlags(_)
\* the loop over Object.entries(args.env), in insertion order
EnvFlags(entries) ==
    IF Len(entries) = 0 THEN ""
    ELSE " --env " \o entries[1][1] \o "=" \o entries[1][2] \o EnvFlags(Tail(entries))

\* claudeMcpAdd without its two presence checks
claudeMcpAddCmdUnchecked(args) ==
    IF args = Undefined THEN Thrown(TypeErr("transport"), "claude mcp add")
    ELSE LET a == args[1]
             c0 == "claude mcp add"
             c1 == IF Truthy(a.transport) /\ a.transport # Some("stdio")
                   THEN c0 \o " --transport " \o Str(a.transport) ELSE c0
             c2 == IF TruthyObj(a.env) THEN c1 \o EnvFlags(a.env[1]) ELSE c1
             c3 == c2 \o " " \o Str(a.name)
         IN IF a.transport = Some("sse") \/ a.transport = Some("http")
            THEN Built(c3 \o " " \o Str(a.url))
            ELSE LET c4 == c3 \o " " \o Str(a.command)
                 IN Built(IF TruthyObj(a.args)
                          THEN c4 \o " " \o Join(a.args[1], " ") ELSE c4)

\* claudeMcpAdd appending the name before the environment flags
claudeMcpAddCmdNameFirst(args) ==
    IF args = Undefined THEN Thrown(TypeErr("transport"), "claude mcp add")
    ELSE LET a == args[1]
             c0 == "claude mcp add"
             c1 == IF Truthy(a.transport) /\ a.transport # Some("stdio")
                   THEN c0 \o " --transport " \o Str(a.transport) ELSE c0
             c2 == c1 \o " " \o Str(a.name)
             c3 == IF TruthyObj(a.env) THEN c2 \o EnvFlags(a.env[1]) ELSE c2
         IN IF a.transport = Some("sse") \/ a.transport = Some("http")
            THEN IF ~Truthy(a.url)
                 THEN Thrown("URL is required for sse/http transport", c3)
                 ELSE Built(c3 \o " " \o Str(a.url))
            ELSE IF ~Truthy(a.command)
                 THEN Thrown("Command is required for stdio transport", c3)
                 ELSE LET c4 == c3 \o " " \o Str(a.command)
                      IN Built(IF TruthyObj(a.args)
                               THEN c4 \o " " \o Join(a.args[1], " ") ELSE c4)

claudeMcpAddCmd(args) ==
    IF args = Undefined THEN Thrown(TypeErr("transport"), "claude mcp add")
    ELSE LET a == args[1]
             c0 == "claude mcp add"
             c1 == IF Truthy(a.transport) /\ a.transport # Some("stdio")
                   THEN c0 \o " --transport " \o Str(a.transport) ELSE c0
             c2 == IF TruthyObj(a.env) THEN c1 \o EnvFlags(a.env[1]) ELSE c1
             c3 == c2 \o " " \o Str(a.name)
         IN IF a.transport = Some("sse") \/ a.transport = Some("http")
            THEN IF ~Truthy(a.url)
                 THEN Thrown("URL is required for sse/http transport", c3)
                 ELSE Built(c3 \o " " \o Str(a.url))
            ELSE IF ~Truthy(a.command)
                 THEN Thrown("Command is required for stdio transport", c3)
                 ELSE LET c4 == c3 \o " " \o Str(a.command)
                      IN Built(IF TruthyObj(a.args)
                               THEN c4 \o " " \o Join(a.args[1], " ") ELSE c4)

claudeMcpAddText(args, out) ==
    LET a == args[1]
    IN "Added MCP server \"" \o Str(a.name) \o "\"\n" \o out.stdout
       \o (IF out.stderr # "" THEN "\nErrors: " \o out.stderr ELSE "")

claudeMcpListCmd == Built("claude mcp list")

claudeMcpListText(out) == "Configured MCP servers:\n" \o out.stdout

\* ------------------------------------------------------ subprocess executor
\* what the child process of one execAsync call can do
OkOutcome(so, se) == [status |-> "ok", stdout |-> so, stderr |-> se]

ExitOutcome(se) == [status |-> "exit", stdout |-> "", stderr |-> se]

SpawnOutcome == [status |-> "spawn", stdout |-> "", stderr |-> ""]

NoOutcome == [status |-> "none", stdout |-> "", stderr |-> ""]

Outcomes ==
    { OkOutcome("out\n", ""), OkOutcome("", "warn\n"), ExitOutcome("boom\n"), SpawnOutcome }

\* the message of the Error execAsync rejects with
ExecErrorMessage(line, out) ==
    IF out.status = "exit" THEN "Command failed: " \o line \o "\n" \o out.stderr
    ELSE "spawn /bin/sh ENOENT"

\* ------------------------------------------------------- call-tool handler
\* a switch whose default branch falls into the last case instead of throwing
HandlerStartFallthrough(name, args, now) ==
    LET case == Dispatch(name)
    IN CASE case = "tmux_split_window" -> splitWindowCmd(args)
         [] case = "tmux_new_window" -> newWindowCmd(args)
         [] case = "tmux_list_sessions" -> listSessionsCmd
         [] case = "tmux_list_windows" -> listWindowsCmd
         [] case = "tmux_send_keys" -> sendKeysCmd(args)
         [] case = "tmux_open_nvim" -> openNvimCmd(args)
         [] case = "tmux_open_obsidian_note" -> openObsidianNoteCmd(args, now)
         [] case = "claude_mcp_add" -> claudeMcpAddCmd(args)
         [] OTHER -> claudeMcpListCmd

\* the body of the try block up to the first await that suspends, or the throw
HandlerStart(name, args, now) ==
    LET case == Dispatch(name)
    IN CASE case = "tmux_split_window" -> splitWindowCmd(args)
         [] case = "tmux_new_window" -> newWindowCmd(args)
         [] case = "tmux_list_sessions" -> listSessionsCmd
         [] case = "tmux_list_windows" -> listWindowsCmd
         [] case = "tmux_send_keys" -> sendKeysCmd(args)
         [] case = "tmux_open_nvim" -> openNvimCmd(args)
         [] case = "tmux_open_obsidian_note" -> openObsidianNoteCmd(args, now)
         [] case = "claude_mcp_add" -> claudeMcpAddCmd(args)
         [] case = "claude_mcp_list" -> claudeMcpListCmd
         [] OTHER -> Thrown("Unknown tool: " \o name, "")

\* the text of the value the awaited handler returns once execAsync resolved
HandlerText(name, args, now, out) ==
    LET case == Dispatch(name)
    IN CASE case = "tmux_split_window" -> splitWindowText(args, out)
         [] case = "tmux_new_window" -> newWindowText(args, out)
         [] case = "tmux_list_sessions" -> listSessionsText(out)
         [] case = "tmux_list_windows" -> listWindowsText(out)
         [] case = "tmux_send_keys" -> sendKeysText(args, out)
         [] case = "tmux_open_nvim" -> openNvimText(args, out)
         [] case = "tmux_open_obsidian_note" -> openObsidianNoteText(args, now, out)
         [] case = "claude_mcp_add" -> claudeMcpAddText(args, out)
         [] OTHER -> claudeMcpListText(out)

\* what leaves the handler: a reply with content blocks, or (fault) an exception
Reply(text) == [fault |-> FALSE, content |-> << [type |-> "text", text |-> text] >>]

Fault(message) == [fault |-> TRUE, content |-> << >>, message |-> message]

NoResult == [fault |-> FALSE, content |-> << >>]

\* a catch clause that lets the errors of execAsync through
CatchClauseRethrow(message) ==
    IF StartsWith(message, "Command failed") THEN Fault(message)
    ELSE Reply("Error: " \o message)

\* the catch clause of the handler, for a thrown Error with this message
CatchClause(message) == Reply("Error: " \o message)

\* ------------------------------------------------------------------ inputs
\* the argument object {} : every field undefined
NoFields ==
    [ direction |-> Undefined, command |-> Undefined, directory |-> Undefined,
      name |-> Undefined, keys |-> Undefined, pane |-> Undefined,
      enter |-> Undefined, file |-> Undefined, split |-> Undefined,
      vault |-> Undefined, note_name |-> Undefined, args |-> Undefined,
      env |-> Undefined, transport |-> Undefined, url |-> Undefined ]

Opt(vals) == {Undefined} \cup {Some(v) : v \in vals}

\* sequences over S of length at most n
SeqUpTo(S, n) == UNION {[1..k -> S] : k \in 0..n}

EnvPairs == {<<"A", "1">>, <<"B", "2">>}

\* the entries of an env object in insertion order: no key twice
EnvEntries ==
    {e \in SeqUpTo(EnvPairs, Cardinality(EnvPairs)) :
        \A i, j \in 1..Len(e) : i # j => e[i][1] # e[j][1]}

Request(name, args, now) == [name |-> name, args |-> args, now |-> now]

NoReq == Request("", Undefined, "")

Clock == {"2024-01-02T03:04:05.678Z", "2025-12-31T23:59:59.000Z"}

splitWindowArgs ==
    {Undefined} \cup
    { Some([NoFields EXCEPT !.direction = d, !.command = k, !.directory = w]) :
        d \in Opt({"horizontal", "vertical", "diagonal"}),
        k \in Opt({"", "htop"}), w \in Opt({"", "/tmp"}) }

newWindowArgs ==
    {Undefined} \cup
    { Some([NoFields EXCEPT !.name = n, !.command = k, !.directory = w]) :
        n \in Opt({"", "logs"}), k \in Opt({"", "htop"}), w \in Opt({"", "/tmp"}) }

sendKeysArgs ==
    {Undefined} \cup
    { Some([NoFields EXCEPT !.keys = k, !.pane = p, !.enter = e]) :
        k \in Opt({"", "ls"}), p \in Opt({"", "%1"}), e \in Opt({TRUE, FALSE}) }

openNvimArgs ==
    {Undefined} \cup
    { Some([NoFields EXCEPT !.file = f, !.directory = w, !.split = d]) :
        f \in Opt({"", "a.txt"}), w \in Opt({"", "/tmp"}),
        d \in Opt({"horizontal", "vertical"}) }

openObsidianNoteArgs ==
    {Undefined} \cup
    { Some([NoFields EXCEPT !.vault = v, !.note_name = n, !.split = d]) :
        v \in Opt({"", "work"}), n \in Opt({"", "todo.md"}),
        d \in Opt({"horizontal", "vertical"}) }

claudeMcpAddArgs ==
    {Undefined} \cup
    { Some([NoFields EXCEPT !.name = n, !.command = k, !.args = a, !.env = e,
                            !.transport = t, !.url = u]) :
        n \in Opt({"srv"}), k \in Opt({"", "npx"}),
        a \in Opt(SeqUpTo({"-y", "pkg"}, MaxArgs)), e \in Opt(EnvEntries),
        t \in Opt({"stdio", "sse", "http", "ws"}), u \in Opt({"", "http://h/sse"}) }

noArgs == {Undefined, Some(NoFields)}

\* every call-tool request of the model
Requests ==
    {Request("tmux_split_window", a, "") : a \in splitWindowArgs}
    \cup {Request("tmux_new_window", a, "") : a \in newWindowArgs}
    \cup {Request(n, a, "") :
            n \in {"tmux_list_sessions", "tmux_list_windows", "claude_mcp_list",
                   "tmux_kill_server", ""},
            a \in noArgs}
    \cup {Request("tmux_send_keys", a, "") : a \in sendKeysArgs}
    \cup {Request("tmux_open_nvim", a, "") : a \in openNvimArgs}
    \cup {Request("tmux_open_obsidian_note", a, t) :
            a \in openObsidianNoteArgs, t \in Clock}
    \cup {Request("claude_mcp_add", a, "") : a \in claudeMcpAddArgs}

\* the requests used when several calls are in flight
ConcRequests ==
    { Request("tmux_kill_server", Some(NoFields), ""),
      Request("tmux_list_sessions", Some(NoFields), ""),
      Request("tmux_send_keys", Some([NoFields EXCEPT !.keys = Some("ls")]), ""),
      Request("tmux_send_keys", Undefined, ""),
      Request("tmux_split_window",
              Some([NoFields EXCEPT !.direction = Some("horizontal")]), ""),
      Request("claude_mcp_add",
              Some([NoFields EXCEPT !.name = Some("srv"),
                                    !.transport = Some("sse")]), ""),
      Request("claude_mcp_add",
              Some([NoFields EXCEPT !.name = Some("srv"),
                                    !.command = Some("npx")]), ""),
      Request("tmux_open_obsidian_note", Some(NoFields), "2024-01-02T03:04:05.678Z") }

\* ------------------------------------------------------------------- state
\* pc[c]      where call c is: "idle", "waiting" (suspended in await), "replied"
\* req[c]     the request of call c
\* cmd[c]     the handler's local `cmd` of call c, as far as it was built
\* execs[c]   the command lines call c has passed to execAsync
\* outcome[c] how the subprocess of call c ended
\* result[c]  what the handler of call c returned to the protocol layer
\* branch[c]  the switch branch call c took
\* listed     the tool names of the last list-tools reply
Init ==
    /\ pc = [c \in Calls |-> "idle"]
    /\ req = [c \in Calls |-> NoReq]
    /\ cmd = [c \in Calls |-> ""]
    /\ execs = [c \in Calls |-> << >>]
    /\ outcome = [c \in Calls |-> NoOutcome]
    /\ result = [c \in Calls |-> NoResult]
    /\ branch = [c \in Calls |-> ""]
    /\ listed = << >>

\* the ListToolsRequestSchema handler
ListToolsCall ==
    /\ listed' = ListTools
    /\ UNCHANGED <<pc, req, cmd, execs, outcome, result, branch>>

\* the CallToolRequestSchema handler, from the request to its first suspension
\* (the await of execAsync) or, when it throws before that, to its reply
CallTool(c, r) ==
    LET s == HandlerStart(r.name, r.args, r.now)
    IN /\ pc[c] = "idle"
       /\ req' = [req EXCEPT ![c] = r]
       /\ branch' = [branch EXCEPT ![c] = Dispatch(r.name)]
       /\ cmd' = [cmd EXCEPT ![c] = s.line]
       /\ outcome' = [outcome EXCEPT ![c] = NoOutcome]
       /\ IF s.thrown
          THEN /\ result' = [result EXCEPT ![c] = CatchClause(s.message)]
               /\ pc' = [pc EXCEPT ![c] = "replied"]
               /\ UNCHANGED execs
          ELSE /\ execs' = [execs EXCEPT ![c] = Append(@, s.line)]
               /\ pc' = [pc EXCEPT ![c] = "waiting"]
               /\ UNCHANGED result
       /\ UNCHANGED listed

\* one pending-result slot for the whole server: the exit of one subprocess
\* resumes every suspended call with that subprocess's outcome
SubprocessExitWakesAll(c, out) ==
    /\ pc[c] = "waiting"
    /\ outcome' = [outcome EXCEPT ![c] = out]
    /\ result' = [d \in Calls |->
                    IF pc[d] # "waiting" THEN result[d]
                    ELSE IF out.status = "ok"
                    THEN Reply(HandlerText(req[c].name, req[c].args, req[c].now, out))
                    ELSE CatchClause(ExecErrorMessage(execs[c][Len(execs[c])], out))]
    /\ pc' = [d \in Calls |-> IF pc[d] = "waiting" THEN "replied" ELSE pc[d]]
    /\ UNCHANGED <<req, cmd, execs, branch, listed>>

\* a handler that does not tell a rejected execAsync from a resolved one
SubprocessExitIgnoresStatus(c, out) ==
    /\ pc[c] = "waiting"
    /\ outcome' = [outcome EXCEPT ![c] = out]
    /\ result' = [result EXCEPT ![c] =
                    Reply(HandlerText(req[c].name, req[c].args, req[c].now, out))]
    /\ pc' = [pc EXCEPT ![c] = "replied"]
    /\ UNCHANGED <<req, cmd, execs, branch, listed>>

\* the subprocess of call c ends; execAsync settles and the handler resumes
SubprocessExit(c, out) ==
    /\ pc[c] = "waiting"
    /\ outcome' = [outcome EXCEPT ![c] = out]
    /\ result' = [result EXCEPT ![c] =
                    IF out.status = "ok"
                    THEN Reply(HandlerText(req[c].name, req[c].args, req[c].now, out))
                    ELSE CatchClause(ExecErrorMessage(execs[c][Len(execs[c])], out))]
    /\ pc' = [pc EXCEPT ![c] = "replied"]
    /\ UNCHANGED <<req, cmd, execs, branch, listed>>

\* the protocol layer sends the reply of call c; its frame is gone
SendReply(c) ==
    /\ pc[c] = "replied"
    /\ pc' = [pc EXCEPT ![c] = "idle"]
    /\ req' = [req EXCEPT ![c] = NoReq]
    /\ cmd' = [cmd EXCEPT ![c] = ""]
    /\ execs' = [execs EXCEPT ![c] = << >>]
    /\ outcome' = [outcome EXCEPT ![c] = NoOutcome]
    /\ result' = [result EXCEPT ![c] = NoResult]
    /\ branch' = [branch EXCEPT ![c] = ""]
    /\ UNCHANGED listed

\* one call at a time, every request of the model
Next ==
    \/ ListToolsCall
    \/ \E c \in SeqCalls, r \in Requests : CallTool(c, r)
    \/ \E c \in SeqCalls, out \in Outcomes : SubprocessExit(c, out)
    \/ \E c \in SeqCalls : SendReply(c)

Spec == Init /\ [][Next]_vars

\* up to NumCalls calls in flight, interleaved in every order
NextConc ==
    \/ ListToolsCall
    \/ \E c \in Calls, r \in ConcRequests : CallTool(c, r)
    \/ \E c \in Calls, out \in Outcomes : SubprocessExit(c, out)
    \/ \E c \in Calls : SendReply(c)

SpecConc == Init /\ [][NextConc]_vars

\* ------------------------------------------- the subprocess and the handler
\* The same handler in two steps: the child process of call c ends (a step of
\* the operating system, which may never come), and then the event loop runs
\* the callback of exec, which settles execAsync and resumes the handler.

\* the requests used when the end of the subprocess and the resumption of the
\* handler are told apart
LiveRequests ==
    { Request("tmux_kill_server", Some(NoFields), ""),
      Request("tmux_list_sessions", Some(NoFields), ""),
      Request("tmux_send_keys", Some([NoFields EXCEPT !.keys = Some("ls")]), ""),
      Request("claude_mcp_add",
              Some([NoFields EXCEPT !.name = Some("srv"),
                                    !.transport = Some("sse")]), "") }

\* the child process of call c ends with outcome out
ChildExit(c, out) ==
    /\ pc[c] = "waiting"
    /\ outcome[c] = NoOutcome
    /\ outcome' = [outcome EXCEPT ![c] = out]
    /\ UNCHANGED <<pc, req, cmd, execs, result, branch, listed>>

\* an executor that resumes the suspended calls in the order of their slots
ResumeInOrder(c) ==
    /\ outcome[c] # NoOutcome
    /\ \A d \in Calls : d < c => pc[d] # "waiting"
    /\ SubprocessExit(c, outcome[c])

\* the callback of exec for the ended child of call c: the handler resumes
Resume(c) ==
    /\ outcome[c] # NoOutcome
    /\ SubprocessExit(c, outcome[c])

NextLive ==
    \/ ListToolsCall
    \/ \E c \in Calls, r \in LiveRequests : CallTool(c, r)
    \/ \E c \in Calls, out \in Outcomes : ChildExit(c, out)
    \/ \E c \in Calls : Resume(c)
    \/ \E c \in Calls : SendReply(c)

\* the event loop runs the callback of every child that has ended; nothing
\* makes a child end
SpecLive ==
    Init /\ [][NextLive]_vars /\ \A c \in Calls : WF_vars(Resume(c))

\* ============================================================== properties
Range(f) == {f[i] : i \in DOMAIN f}

Active(c) == pc[c] # "idle"

Replied(c) == pc[c] = "replied"

\* the text of the first content block of the reply of call c
TextOf(c) == result[c].content[1].text

\* the reply of call c is one text block whose text begins with `Error:`
IsErrorReply(c) ==
    /\ ~result[c].fault
    /\ Len(result[c].content) = 1
    /\ result[c].content[1].type = "text"
    /\ StartsWith(TextOf(c), "Error:")

ArgsGiven(c) == req[c].args # Undefined

ArgsOf(c) == req[c].args[1]

\* the three failure kinds of the error taxonomy, read off the request and the
\* subprocess outcome
UnknownOperation(c) == req[c].name \notin Range(ListTools)

MissingUrl(c) ==
    /\ req[c].name = "claude_mcp_add" /\ ArgsGiven(c)
    /\ ArgsOf(c).transport \in {Some("sse"), Some("http")}
    /\ ArgsOf(c).url \in {Undefined, Some("")}

MissingCommand(c) ==
    /\ req[c].name = "claude_mcp_add" /\ ArgsGiven(c)
    /\ ArgsOf(c).transport \notin {Some("sse"), Some("http")}
    /\ ArgsOf(c).command \in {Undefined, Some("")}

SubprocessFailed(c) == outcome[c].status \in {"exit", "spawn"}

\* C1: every finished call of the call-tool handler returned a reply, never an
\* exception, and that reply is exactly one text block; when the call failed
\* for an unknown operation, a missing url/command or a failed subprocess, the
\* text of that block begins with `Error:`.
C1_FailuresBecomeErrorReplies ==
    \A c \in Calls :
        Replied(c) =>
            /\ ~result[c].fault
            /\ Len(result[c].content) = 1
            /\ result[c].content[1].type = "text"
            /\ (UnknownOperation(c) \/ MissingUrl(c) \/ MissingCommand(c)
                    \/ SubprocessFailed(c)) => IsErrorReply(c)

\* a call whose subprocess exited non-zero has replied with an Error: text
C1_Witness ==
    \E c \in Calls :
        /\ Replied(c) /\ outcome[c].status = "exit"
        /\ StartsWith(TextOf(c), "Error: Command failed: ")

\* C2: the names the list-tools handler returns and the case labels of the
\* dispatch switch are the same names, each label once; a call whose name was
\* discovered never takes the default branch (never answers `Unknown tool`),
\* and a call with any other name always does.
C2_DiscoveryMatchesDispatch ==
    /\ \A i \in 1..Len(ListTools) :
          Cardinality({j \in 1..Len(DispatchCases) : DispatchCases[j] = ListTools[i]}) = 1
    /\ Range(DispatchCases) \subseteq Range(ListTools)
    /\ \A i \in 1..Len(ListToolsIndex) :
          Cardinality({j \in 1..Len(DispatchCasesIndex) :
                          DispatchCasesIndex[j] = ListToolsIndex[i]}) = 1
    /\ Range(DispatchCasesIndex) \subseteq Range(ListToolsIndex)
    /\ \A c \in Calls :
          (Active(c) /\ listed # << >>) =>
              /\ (branch[c] = "default") <=> (req[c].name \notin Range(listed))
              /\ Replied(c) =>
                    ( StartsWith(TextOf(c), "Error: Unknown tool: ")
                        <=> (req[c].name \notin Range(listed)) )

\* after discovery, a call with an undiscovered name took the default branch
C2_Witness ==
    \E c \in Calls :
        /\ listed # << >> /\ Replied(c)
        /\ req[c].name = "tmux_kill_server"
        /\ branch[c] = "default"
        /\ TextOf(c) = "Error: Unknown tool: tmux_kill_server"

\* the tools whose handler reads a field of its arguments
ArgReadingTools ==
    { "tmux_split_window", "tmux_new_window", "tmux_send_keys", "tmux_open_nvim",
      "tmux_open_obsidian_note", "claude_mcp_add" }

\* the call is turned down before any execAsync call
RejectedBeforeExec(c) ==
    \/ UnknownOperation(c)
    \/ MissingUrl(c)
    \/ MissingCommand(c)
    \/ req[c].name \in ArgReadingTools /\ ~ArgsGiven(c)

\* C3 as stated: every finished call, error replies included, ran exactly one
\* subprocess.
C3_ExactlyOneExecPerCall ==
    \A c \in Calls : Replied(c) => Len(execs[c]) = 1

\* C3 amended: a call runs at most one subprocess; a suspended call has run
\* exactly one; a finished call has run none exactly when it was turned down
\* before execution (unknown tool, claude_mcp_add without its url or command,
\* arguments omitted for a tool that reads them) and exactly one otherwise.
C3_AtMostOneExecPerCall ==
    \A c \in Calls :
        /\ Len(execs[c]) <= 1
        /\ pc[c] = "waiting" => Len(execs[c]) = 1
        /\ Replied(c) => (Len(execs[c]) = 0 <=> RejectedBeforeExec(c))

\* a call that ended in an error reply after running its one subprocess
C3_Witness ==
    \E c \in Calls :
        /\ Replied(c) /\ SubprocessFailed(c)
        /\ IsErrorReply(c) /\ Len(execs[c]) = 1

\* the precondition of C4: a network transport without url, or the local
\* transport (stdio or omitted) without command
C4_Pre(c) ==
    /\ req[c].name = "claude_mcp_add"
    /\ \/ ~ArgsGiven(c)
       \/ /\ ArgsGiven(c)
          /\ \/ /\ ArgsOf(c).transport \in {Some("sse"), Some("http")}
                /\ ArgsOf(c).url \in {Undefined, Some("")}
             \/ /\ ArgsOf(c).transport \in {Undefined, Some("stdio")}
                /\ ArgsOf(c).command \in {Undefined, Some("")}

\* C4: a claude_mcp_add call with a network transport and no url, or with the
\* local transport and no command, is answered at once with an Error: reply
\* that names the missing field, and runs no subprocess.
C4_MissingFieldNoExec ==
    \A c \in Calls :
        (Active(c) /\ C4_Pre(c)) =>
            /\ Replied(c)
            /\ execs[c] = << >>
            /\ outcome[c] = NoOutcome
            /\ IsErrorReply(c)
            /\ ArgsGiven(c) =>
                  TextOf(c) = (IF ArgsOf(c).transport \in {Some("sse"), Some("http")}
                               THEN "Error: URL is required for sse/http transport"
                               ELSE "Error: Command is required for stdio transport")

\* an sse registration without url was refused without a subprocess
C4_Witness ==
    \E c \in Calls :
        /\ Replied(c) /\ req[c].name = "claude_mcp_add" /\ ArgsGiven(c)
        /\ ArgsOf(c).transport = Some("sse") /\ ArgsOf(c).url = Undefined
        /\ ArgsOf(c).name = Some("srv")
        /\ execs[c] = << >>
        /\ TextOf(c) = "Error: URL is required for sse/http transport"

\* the one command line call c passed to execAsync
LineOf(c) == execs[c][1]

\* C5: a tmux_open_obsidian_note call without a vault (absent or empty) runs
\* only the `ls` of the vault base directory and never a `tmux split-window`
\* or nvim command; a split-with-editor command is run only for a call that
\* carries a non-empty vault.
C5_NoVaultOnlyLists ==
    \A c \in Calls :
        (Active(c) /\ req[c].name = "tmux_open_obsidian_note") =>
            /\ (ArgsGiven(c) /\ ArgsOf(c).vault \in {Undefined, Some("")}) =>
                  execs[c] = << "ls \"" \o obsidianBase \o "\"" >>
            /\ \A i \in 1..Len(execs[c]) :
                  (Contains(execs[c][i], "split-window") \/ Contains(execs[c][i], "nvim"))
                      => /\ ArgsGiven(c)
                         /\ ArgsOf(c).vault \notin {Undefined, Some("")}
                         /\ StartsWith(execs[c][i], "tmux split-window -")

\* a call without vault finished after the listing alone
C5_Witness ==
    \E c \in Calls :
        /\ Replied(c) /\ req[c].name = "tmux_open_obsidian_note" /\ ArgsGiven(c)
        /\ ArgsOf(c).vault = Undefined /\ ArgsOf(c).note_name = Some("todo.md")
        /\ outcome[c].status = "ok"
        /\ Len(execs[c]) = 1 /\ StartsWith(LineOf(c), "ls ")
        /\ StartsWith(TextOf(c), "Available vaults:\n")

\* C6: the command of a tmux_send_keys call ends with the ` Enter` token
\* exactly when `enter` is not explicitly false (omitted or true); the token
\* comes right after the quoted keys argument, and the target-pane flag, when
\* a pane is given, stands before the keys argument.
C6_EnterUnlessFalse ==
    \A c \in Calls :
        (Active(c) /\ req[c].name = "tmux_send_keys" /\ ArgsGiven(c)) =>
            LET a == ArgsOf(c)
                line == LineOf(c)
                quoted == " \"" \o Str(a.keys) \o "\""
                tail == IF a.enter = Some(FALSE) THEN quoted ELSE quoted \o " Enter"
                flag == " -t \"" \o Str(a.pane) \o "\""
                keysAt == Len(line) - Len(tail) + 1
            IN /\ Len(execs[c]) = 1
               /\ EndsWith(line, " Enter") <=> (a.enter # Some(FALSE))
               /\ EndsWith(line, tail)
               /\ IF a.pane \in {Undefined, Some("")}
                  THEN ~Contains(line, " -t ")
                  ELSE /\ IndexOf(line, flag) > 0
                       /\ IndexOf(line, flag) + Len(flag) <= keysAt

\* keys sent to a pane with `enter` omitted: the command ends with Enter
C6_Witness ==
    \E c \in Calls :
        /\ Active(c) /\ req[c].name = "tmux_send_keys" /\ ArgsGiven(c)
        /\ ArgsOf(c).enter = Undefined
        /\ ArgsOf(c).keys = Some("ls") /\ ArgsOf(c).pane = Some("%1")
        /\ LineOf(c) = "tmux send-keys -t \"%1\" \"ls\" Enter"

\* C7 as stated: horizontal gives -h, vertical gives -v, and for any other
\* direction, an absent one included, no split command is built or run.
C7_DirectionValidated ==
    \A c \in Calls :
        (Active(c) /\ req[c].name = "tmux_split_window" /\ ArgsGiven(c)) =>
            LET d == ArgsOf(c).direction
            IN /\ d = Some("horizontal") =>
                    (Len(execs[c]) = 1 /\ Contains(LineOf(c), " -h"))
               /\ d = Some("vertical") =>
                    (Len(execs[c]) = 1 /\ Contains(LineOf(c), " -v"))
               /\ d \notin {Some("horizontal"), Some("vertical")} =>
                    (execs[c] = << >> /\ cmd[c] = "")

\* the required field of the call's tool is absent from its arguments
RequiredFieldAbsent(c) ==
    /\ ArgsGiven(c)
    /\ \/ req[c].name = "tmux_split_window" /\ ArgsOf(c).direction = Undefined
       \/ req[c].name = "tmux_send_keys" /\ ArgsOf(c).keys = Undefined
       \/ req[c].name = "claude_mcp_add" /\ ArgsOf(c).name = Undefined

\* C8 as stated: a call whose required field (direction, keys, name) is absent
\* is answered with an error reply and runs no command.
C8_RequiredFieldChecked ==
    \A c \in Calls :
        (Active(c) /\ RequiredFieldAbsent(c)) =>
            /\ execs[c] = << >>
            /\ Replied(c) /\ IsErrorReply(c)

\* what the handler makes of one request alone: the command it builds, the
\* subprocesses it starts, and its reply for a given subprocess outcome
OwnStart(r) == HandlerStart(r.name, r.args, r.now)

OwnExecs(r) == IF OwnStart(r).thrown THEN << >> ELSE << OwnStart(r).line >>

OwnResult(r, out) ==
    IF OwnStart(r).thrown THEN CatchClause(OwnStart(r).message)
    ELSE IF out.status = "ok" THEN Reply(HandlerText(r.name, r.args, r.now, out))
    ELSE CatchClause(ExecErrorMessage(OwnStart(r).line, out))

\* C9: with several calls in flight, in every interleaving and after any
\* number of earlier calls, the command a call built, the subprocess it
\* started and its reply are those its own request and its own subprocess
\* outcome determine; a call stays suspended until its own subprocess ends,
\* whatever happens to the others.
C9_CallsIndependent ==
    \A c \in Calls :
        /\ pc[c] = "idle" =>
              (cmd[c] = "" /\ execs[c] = << >> /\ result[c] = NoResult)
        /\ Active(c) =>
              (cmd[c] = OwnStart(req[c]).line /\ execs[c] = OwnExecs(req[c]))
        /\ pc[c] = "waiting" => (outcome[c] = NoOutcome /\ result[c] = NoResult)
        /\ Replied(c) => result[c] = OwnResult(req[c], outcome[c])

\* one call has ended in an error reply while another is still suspended on
\* the subprocess it started itself
C9_Witness ==
    \E c, d \in Calls :
        /\ c # d
        /\ Replied(c) /\ SubprocessFailed(c) /\ IsErrorReply(c)
        /\ pc[d] = "waiting" /\ req[d].name = "tmux_send_keys"
        /\ execs[d] = << "tmux send-keys \"ls\" Enter" >>

\* C10: the command of every claude_mcp_add call that reaches execAsync is
\* `claude mcp add` followed, in this order, by the transport flag (for a
\* transport other than stdio), one `--env key=value` per env entry, the name,
\* the url (sse, http) or the command (otherwise), and, after a command, the
\* trailing arguments.
C10_McpAddTokenOrder ==
    \A c \in Calls :
        (Active(c) /\ req[c].name = "claude_mcp_add" /\ execs[c] # << >>) =>
            LET a == ArgsOf(c)
                network == a.transport \in {Some("sse"), Some("http")}
                transportFlag ==
                    IF a.transport \in {Undefined, Some(""), Some("stdio")} THEN ""
                    ELSE " --transport " \o a.transport[1]
                entries == IF a.env = Undefined THEN << >> ELSE a.env[1]
                envFlags ==
                    IF Len(entries) = 0 THEN ""
                    ELSE " " \o Join([i \in 1..Len(entries) |->
                                        "--env " \o entries[i][1] \o "=" \o entries[i][2]],
                                     " ")
                target == IF network THEN a.url[1] ELSE a.command[1]
                trailing ==
                    IF network \/ a.args = Undefined THEN ""
                    ELSE " " \o Join(a.args[1], " ")
                head == "claude mcp add" \o transportFlag \o envFlags
                line == LineOf(c)
            IN /\ line = head \o " " \o Str(a.name) \o " " \o target \o trailing
               /\ Len(entries) > 0 =>
                     IndexOf(line, " --env ") > Len("claude mcp add" \o transportFlag)
               /\ transportFlag # "" => IndexOf(line, " --transport ") = Len("claude mcp add") + 1

\* an sse registration with two env entries: flag, env flags, name, url
C10_Witness ==
    \E c \in Calls :
        /\ Replied(c) /\ req[c].name = "claude_mcp_add" /\ outcome[c].status = "ok"
        /\ LineOf(c) = "claude mcp add --transport sse --env B=2 --env A=1 srv http://h/sse"

\* C11: a call is suspended only on its own subprocess.  Once that subprocess
\* has ended, with whatever status, the call comes to its reply, whatever the
\* other calls and their subprocesses do; while it has not ended the call
\* stays suspended without a reply (no timeout, no cancellation); and a reply,
\* once returned, is the only one of that call.
C11_ReplyFollowsOwnExit ==
    /\ \A c \in Calls :
          (pc[c] = "waiting" /\ outcome[c] # NoOutcome) ~> Replied(c)
    /\ [][\A c \in Calls :
            (pc[c] = "waiting" /\ outcome[c] = NoOutcome) =>
                (pc'[c] = "waiting" /\ result'[c] = NoResult)]_vars
    /\ [][\A c \in Calls :
            Replied(c) =>
                \/ pc'[c] = "replied" /\ result'[c] = result[c]
                \/ pc'[c] = "idle" /\ result'[c] = NoResult]_vars

\* a later slot has its reply while an earlier call is still suspended on a
\* subprocess that has not ended
C11_Witness ==
    \E c, d \in Calls :
        /\ c < d
        /\ pc[c] = "waiting" /\ outcome[c] = NoOutcome /\ result[c] = NoResult
        /\ Replied(d) /\ outcome[d].status = "exit" /\ Len(result[d].content) = 1

\* the reply of call c is one text block whose text does not begin with `Error:`
IsSuccessReply(c) ==
    /\ Replied(c) /\ ~result[c].fault
    /\ Len(result[c].content) = 1
    /\ ~StartsWith(TextOf(c), "Error:")

\* C12: a call has a success reply (text not beginning with `Error:`) only
\* after it started its subprocess and that subprocess ended successfully: a
\* success reply always comes with one execution and an `ok` outcome, and the
\* step that returns it is taken by a call suspended on a started subprocess.
C12_SuccessOnlyAfterOkExit ==
    /\ [](\A c \in Calls :
            IsSuccessReply(c) => (Len(execs[c]) = 1 /\ outcome[c].status = "ok"))
    /\ [][\A c \in Calls :
            (~IsSuccessReply(c) /\ IsSuccessReply(c)') =>
                /\ pc[c] = "waiting" /\ Len(execs[c]) = 1
                /\ execs'[c] = execs[c]
                /\ outcome'[c].status = "ok"]_vars

\* a registration whose subprocess ended with status 0 and text on stderr
\* has its success reply
C12_Witness ==
    \E c \in Calls :
        /\ IsSuccessReply(c) /\ req[c].name = "claude_mcp_add"
        /\ outcome[c] = OkOutcome("", "warn\n")
        /\ execs[c] = << "claude mcp add srv npx" >>
        /\ TextOf(c) = "Added MCP server \"srv\"\n\nErrors: warn\n"

====
